---- MODULE Spec2Model ----
(***************************************************************************)
(* graviton.TaskManager: the cooperative task scheduler (TaskManager),     *)
(* its task owners (Task.Owner) and its tasks (Task.Task).                 *)
(*                                                                         *)
(* One state is the content of the module-level variables of TaskManager,  *)
(* the Owner and Task objects, and the host's queue of deferred calls      *)
(* (_.defer).  One step is one host turn: a public API call made by the    *)
(* application, or the oldest deferred call.  Arrays are sequences; the    *)
(* END of taskOwnerStack is the top of the stack (push/pop).               *)
(***************************************************************************)
EXTENDS Integers, Sequences, FiniteSets, TLC

\* ---------------------------------------------------------------- bounds
MaxOwners == 2      \* owners registered over one run
MaxTasks == 2       \* tasks added over one run
MaxRequests == 2    \* requireTask calls over one run
MaxTaskIds == 2     \* longest taskId array of one requireTask call
MaxLen == 3         \* longest list of an IterationTask
MaxStep == 2        \* largest step of an IterationTask
MaxTaskOwners == 1  \* owners registered over one run of TaskSpec and
                    \* of IterationSpec
MaxIterations == 1  \* IterationTasks added over one run of IterationSpec

\* ------------------------------------------------------------- constants
FirstOwnerId == 1   \* _ownerCounter = 1
FirstTaskId == 0    \* _taskIdCounter = 0
NoOwner == 0        \* null / undefined owner id
NoTask == -1        \* null / undefined task

PENDING == "pending"
ACTIVE == "active"
COMPLETE == "complete"
CANCELLED == "cancelled"
PAUSED == "paused"
\* statics.state has no PAUSE and no CANCEL key: pause() and destroy() store
\* the value of a missing property
UNDEFINED == "undefined"

\* IterationTask.statics.type
EACH == "each"
MAP == "map"
REDUCE == "reduce"

OwnerIds == FirstOwnerId..(FirstOwnerId + MaxOwners - 1)
TaskIds == FirstTaskId..(FirstTaskId + MaxTasks - 1)

VARIABLES
    taskOwners,       \* _taskOwners: the ids that are keys of the registry
    taskOwnerStack,   \* _taskOwnerStack
    activeTaskOwner,  \* _activeTaskOwner
    priorityStack,    \* _priorityStack
    running,          \* _running
    ownerCounter,     \* _ownerCounter
    taskIdCounter,    \* _taskIdCounter
    owners,           \* the Task.Owner objects, by id (kept after unregister:
                      \* a deferred _executeTask still holds its owner)
    tasks,            \* the Task.Task objects, by id
    deferred,         \* the host's queue of _.defer'ed calls, oldest first
    callbacks,        \* the callback field of each task: TRUE for a function
    iterations,       \* the fields an IterationTask adds to a task, by id
    nextIteration,    \* the globals nextIteration and iterate: the execute
                      \* call whose closures they hold
    \* ---- observation only (never read by the modelled code)
    execLog,          \* task ids in the order their fn was applied
    requestCounter,   \* requireTask calls so far
    popped,           \* the requests shifted off _priorityStack, in order
    pass,             \* what the _performTask of the latest step did
    lastExec,         \* what the Task.execute of the latest step did
    configs,          \* the definition each task was constructed from
    applyLog,         \* [task, idx] in the order fn was applied to elements
    callbackLog,      \* task ids in the order their callback was invoked
    yields,           \* per task, how often its _.defer(iterate) was reached
    turn,             \* what the iterations of the latest step did
    immediate,        \* how the requireTask with immediate of the latest
                      \* step ended
    requestLog        \* the invocations of the callbacks of requests, in order

vars == <<taskOwners, taskOwnerStack, activeTaskOwner, priorityStack, running,
          ownerCounter, taskIdCounter, owners, tasks, deferred,
          callbacks, iterations, nextIteration,
          execLog, requestCounter, popped, pass, lastExec,
          configs, applyLog, callbackLog, yields, turn, immediate,
          requestLog>>

\* The state as one record, so that the functions of the code can be
\* composed the way the code calls them.
Cur ==
    [taskOwners |-> taskOwners, taskOwnerStack |-> taskOwnerStack,
     activeTaskOwner |-> activeTaskOwner, priorityStack |-> priorityStack,
     running |-> running, ownerCounter |-> ownerCounter,
     taskIdCounter |-> taskIdCounter, owners |-> owners, tasks |-> tasks,
     deferred |-> deferred, execLog |-> execLog,
     requestCounter |-> requestCounter, popped |-> popped, pass |-> pass,
     lastExec |-> lastExec, callbacks |-> callbacks,
     iterations |-> iterations, nextIteration |-> nextIteration,
     configs |-> configs, applyLog |-> applyLog, callbackLog |-> callbackLog,
     yields |-> yields, turn |-> turn, immediate |-> immediate,
     requestLog |-> requestLog]

Becomes(s) ==
    /\ taskOwners' = s.taskOwners
    /\ taskOwnerStack' = s.taskOwnerStack
    /\ activeTaskOwner' = s.activeTaskOwner
    /\ priorityStack' = s.priorityStack
    /\ running' = s.running
    /\ ownerCounter' = s.ownerCounter
    /\ taskIdCounter' = s.taskIdCounter
    /\ owners' = s.owners
    /\ tasks' = s.tasks
    /\ deferred' = s.deferred
    /\ execLog' = s.execLog
    /\ requestCounter' = s.requestCounter
    /\ popped' = s.popped
    /\ pass' = s.pass
    /\ lastExec' = s.lastExec
    /\ callbacks' = s.callbacks
    /\ iterations' = s.iterations
    /\ nextIteration' = s.nextIteration
    /\ configs' = s.configs
    /\ applyLog' = s.applyLog
    /\ callbackLog' = s.callbackLog
    /\ yields' = s.yields
    /\ turn' = s.turn
    /\ immediate' = s.immediate
    /\ requestLog' = s.requestLog

\* ------------------------------------------------------- sequence helpers
Last(q) == q[Len(q)]
Front(q) == SubSeq(q, 1, Len(q) - 1)
\* Array.prototype.splice(i, 1), i 1-based
Splice(q, i) == SubSeq(q, 1, i - 1) \o SubSeq(q, i + 1, Len(q))
Range(q) == {q[i] : i \in DOMAIN q}
\* the 1-based index of the first / last occurrence of x, 0 when absent
FirstIndex(q, x) ==
    IF x \in Range(q) THEN CHOOSE i \in DOMAIN q :
        q[i] = x /\ \A j \in 1..(i - 1) : q[j] # x ELSE 0
LastIndex(q, x) ==
    IF x \in Range(q) THEN CHOOSE i \in DOMAIN q :
        q[i] = x /\ \A j \in (i + 1)..Len(q) : q[j] # x ELSE 0

\* ------------------------------------------------------------- Task.Task
\* Task.construct: a task in state PENDING
NewTask(ownerId, activeOnly) ==
    [owner |-> ownerId, activeOnly |-> activeOnly, state |-> PENDING,
     fn |-> TRUE]

\* the slot of a task that does not exist (yet)
AbsentTask == [owner |-> NoOwner, activeOnly |-> FALSE, state |-> UNDEFINED,
               fn |-> FALSE]

\* Task.isComplete
isComplete(t) == t.state = COMPLETE

\* Task.destroy: state.CANCEL is not declared, so the state a task that is
\* not COMPLETE is left with is the undefined value; fn is released
Task_destroy(t) ==
    [t EXCEPT !.state = IF t.state # COMPLETE THEN UNDEFINED ELSE @,
              !.fn = FALSE]

\* Task.pause: statics.state has no PAUSE key, so the state a task that is
\* not COMPLETE is left with is the undefined value
pause(t) == [t EXCEPT !.state = IF t.state # COMPLETE THEN UNDEFINED ELSE @]

\* a task definition as Owner.add receives it: the fields that matter here.
\* iterate says that the definition has an iterate part (list, type, step);
\* length is the number of elements (or keys) of its list.
NoConfig == [activeOnly |-> FALSE, callback |-> FALSE, iterate |-> FALSE,
             length |-> 0, isArray |-> TRUE, type |-> EACH, step |-> 1]

\* Task.construct, the line for config.callback: the definition's callback
\* is subtracted from the field, not assigned to it, so the field keeps the
\* null of the prototype
constructCallback(config) == FALSE

\* ------------------------------------------------------ Task.IterationTask
\* the result of a task that was never written: null
NullResult == [shape |-> "null", at |-> {}]

\* the fields of a task that is no IterationTask
NoIteration == [isIteration |-> FALSE, length |-> 0, isArray |-> TRUE,
                step |-> 1, iterationType |-> EACH, iterator |-> "none",
                currentIteration |-> -1, result |-> NullResult]

\* IterationTask.construct
NewIterationTask(config) ==
    [NoIteration EXCEPT !.isIteration = TRUE, !.length = config.length,
                        !.isArray = config.isArray, !.step = config.step,
                        !.iterationType = config.type]

\* this.type as IterationTask.execute reads it: construct stores the type of
\* the definition in iterationType, and an instance has no property type
type(it) == UNDEFINED

\* the result execute allocates before the first iteration of a MAP
allocateResult(it) ==
    IF it.result = NullResult /\ type(it) = MAP
    THEN [shape |-> IF it.isArray THEN "array" ELSE "object", at |-> {}]
    ELSE it.result

\* the iterator execute picks: _mapArray/_mapDictionary, _reduceArray/
\* _reduceDictionary, or _eachArray/_eachDictionary by default
pickIterator(it) ==
    IF it.iterator # "none" THEN it.iterator
    ELSE IF type(it) = MAP THEN MAP
    ELSE IF type(it) = REDUCE THEN REDUCE
    ELSE EACH

\* what one call of the iterator leaves in task.result: _each* leave it
\* alone, _map* store the value of fn at the index (or key), _reduce* replace
\* it by the value of fn
iteratorResult(it, idx) ==
    IF it.iterator = MAP THEN [it.result EXCEPT !.at = @ \cup {idx}]
    ELSE IF it.iterator = REDUCE
    THEN [shape |-> "value", at |-> it.result.at \cup {idx}]
    ELSE it.result

\* ------------------------------------------------------------ Task.Owner
\* Owner.construct
NewOwner == [tasks |-> {}, taskOrder |-> <<>>, liveTask |-> NoTask,
             completedTasks |-> {}, destroyed |-> FALSE]

\* Owner.add gone wrong: the id goes to the front of taskOrder
add_unshift(ow, taskId) ==
    [ow EXCEPT !.tasks = @ \cup {taskId}, !.taskOrder = <<taskId>> \o @]

\* Owner.add (the task object itself is stored in the variable tasks)
add(ow, taskId) ==
    [ow EXCEPT !.tasks = @ \cup {taskId}, !.taskOrder = Append(@, taskId)]

\* Owner.get
get(ow, taskId) ==
    IF taskId \in ow.tasks \/ taskId \in ow.completedTasks
       \/ (ow.liveTask # NoTask /\ ow.liveTask = taskId)
    THEN taskId ELSE NoTask

\* _removeTask gone wrong: the id leaves taskOrder and stays a key of tasks
removeTask_keepsKey(ow, taskId) ==
    LET i == FirstIndex(ow.taskOrder, taskId) IN
    IF i = 0 THEN [ow |-> ow, ok |-> FALSE]
    ELSE [ow |-> [ow EXCEPT !.taskOrder = Splice(@, i)], ok |-> TRUE]

\* _removeTask: [ow, ok]
removeTask(ow, taskId) ==
    LET i == FirstIndex(ow.taskOrder, taskId) IN
    IF i = 0 THEN [ow |-> ow, ok |-> FALSE]
    ELSE [ow |-> [ow EXCEPT !.taskOrder = Splice(@, i),
                            !.tasks = @ \ {taskId}],
          ok |-> TRUE]

\* Owner.setNext: [ow, ok]
setNext(ow, taskId) ==
    IF taskId \notin ow.tasks THEN [ow |-> ow, ok |-> FALSE]
    ELSE LET r == removeTask(ow, taskId) IN
         IF ~r.ok THEN [ow |-> r.ow, ok |-> FALSE]
         ELSE [ow |-> [r.ow EXCEPT !.liveTask = taskId], ok |-> TRUE]

\* the scan of getNext gone wrong: it stops at the first pending task,
\* activeOnly or not
FirstNotActiveOnly_first(ow, T) == IF ow.taskOrder = <<>> THEN 0 ELSE 1

\* the first index of taskOrder whose task is not activeOnly, 0 when none
FirstNotActiveOnly(ow, T) ==
    LET ok == {i \in DOMAIN ow.taskOrder : ~T[ow.taskOrder[i]].activeOnly} IN
    IF ok = {} THEN 0 ELSE CHOOSE i \in ok : \A j \in ok : i <= j

\* this.tasks[taskId]: the task, or the undefined value when taskId is no key
lookup(ow, taskId) == IF taskId \in ow.tasks THEN taskId ELSE NoTask

\* Owner.getNext: [ow, task]
getNext(ow, isActive, T) ==
    IF ow.taskOrder = <<>> THEN [ow |-> ow, task |-> NoTask]
    ELSE LET i == IF isActive THEN 1 ELSE FirstNotActiveOnly(ow, T) IN
         IF i = 0 THEN [ow |-> ow, task |-> NoTask]
         ELSE LET taskId == ow.taskOrder[i] IN
              [ow |-> [ow EXCEPT !.taskOrder = Splice(@, i),
                                 !.tasks = @ \ {taskId},
                                 !.liveTask = lookup(ow, taskId)],
               task |-> lookup(ow, taskId)]

\* Owner.completed: [ow, threw].  On a destroyed owner the collections are
\* null and the first access to one of them raises a TypeError.
completed(ow, taskId, manualOverride) ==
    IF manualOverride
    THEN IF ow.destroyed THEN [ow |-> ow, threw |-> TRUE]
         ELSE [ow |-> [removeTask(ow, taskId).ow
                         EXCEPT !.completedTasks = @ \cup {taskId}],
               threw |-> FALSE]
    ELSE IF taskId # ow.liveTask THEN [ow |-> ow, threw |-> FALSE]
    ELSE IF ow.destroyed THEN [ow |-> ow, threw |-> TRUE]
    ELSE [ow |-> [ow EXCEPT !.completedTasks = @ \cup {taskId}],
          threw |-> FALSE]

\* Owner.hasPending
hasPending(ow) == ow.taskOrder # <<>>

\* Owner.destroy and _destroyTasks: the tasks the owner's destroy reaches
DestroyedBy(ow) ==
    ow.tasks \cup (IF ow.liveTask # NoTask THEN {ow.liveTask} ELSE {})

destroy(ow) ==
    [ow EXCEPT !.tasks = {}, !.taskOrder = <<>>, !.completedTasks = {},
               !.destroyed = TRUE]

\* ---------------------------------------------------- Task.execute
NoExec == [task |-> NoTask, before |-> UNDEFINED, manual |-> FALSE,
           ranFn |-> FALSE, notified |-> FALSE, calledNext |-> FALSE]

\* Task.execute gone wrong: without the guard on ACTIVE and COMPLETE
execute_unguarded(s, taskId, ownerId, manualOverride) ==
    LET t == s.tasks[taskId]
        seen == [NoExec EXCEPT !.task = taskId, !.before = t.state,
                               !.manual = manualOverride]
    IN
    IF ~t.fn
    THEN [s |-> [s EXCEPT !.tasks[taskId].state = ACTIVE, !.lastExec = seen],
          threw |-> TRUE, next |-> FALSE]
    ELSE LET c == completed(s.owners[ownerId], taskId, manualOverride)
             s1 == [s EXCEPT !.tasks[taskId].state = COMPLETE,
                             !.execLog = Append(@, taskId),
                             !.owners[ownerId] = c.ow,
                             !.callbackLog =
                                 IF ~c.threw /\ s.callbacks[taskId]
                                 THEN Append(@, taskId) ELSE @]
         IN
         [s |-> [s1 EXCEPT !.lastExec =
                    [seen EXCEPT !.ranFn = TRUE, !.notified = TRUE,
                                 !.calledNext = ~c.threw]],
          threw |-> c.threw, next |-> ~c.threw]

\* Task.execute(owner, next, manualOverride): [s, threw, next]; next says
\* that the continuation was called.  fn is null after destroy(), and
\* applying it raises a TypeError with the task left ACTIVE.  The callback
\* is invoked after owner.completed and before the continuation.
execute(s, taskId, ownerId, manualOverride) ==
    LET t == s.tasks[taskId]
        seen == [NoExec EXCEPT !.task = taskId, !.before = t.state,
                               !.manual = manualOverride]
    IN
    IF t.state = ACTIVE \/ t.state = COMPLETE
    THEN [s |-> [s EXCEPT !.lastExec = seen], threw |-> FALSE, next |-> FALSE]
    ELSE IF ~t.fn
    THEN [s |-> [s EXCEPT !.tasks[taskId].state = ACTIVE, !.lastExec = seen],
          threw |-> TRUE, next |-> FALSE]
    ELSE LET c == completed(s.owners[ownerId], taskId, manualOverride)
             s1 == [s EXCEPT !.tasks[taskId].state = COMPLETE,
                             !.execLog = Append(@, taskId),
                             !.owners[ownerId] = c.ow,
                             !.callbackLog =
                                 IF ~c.threw /\ s.callbacks[taskId]
                                 THEN Append(@, taskId) ELSE @]
         IN
         [s |-> [s1 EXCEPT !.lastExec =
                    [seen EXCEPT !.ranFn = TRUE, !.notified = TRUE,
                                 !.calledNext = ~c.threw]],
          threw |-> c.threw, next |-> ~c.threw]

\* the entries of the host's queue of deferred calls
DeferredPerform == [fn |-> "_performTask", task |-> NoTask, owner |-> NoOwner]
DeferredExecute(taskId, ownerId) ==
    [fn |-> "_executeTask", task |-> taskId, owner |-> ownerId]

\* -------------------------------------------- IterationTask.execute
\* the closures one call of IterationTask.execute creates: me, owner and
\* manualOverride (next is the continuation of the _executeTask that made
\* the call: it defers _performTask unless returnControl, which is the
\* manualOverride it passed)
NoClosure == [task |-> NoTask, owner |-> NoOwner, manual |-> FALSE]

DeferredIterate(taskId) ==
    [fn |-> "iterate", task |-> taskId, owner |-> NoOwner]

\* observation of one step: the applications of fn to elements and the
\* tasks whose _.defer(iterate) was reached, in order
NoTurn == [applied |-> <<>>, yielded |-> <<>>]

\* onComplete of the closures c: [s, threw]
onCompleteNotified(done, c, n) ==
    IF n.threw THEN [s |-> done, threw |-> TRUE]
    ELSE [s |-> [done EXCEPT
                    !.owners[c.owner] = n.ow,
                    !.callbackLog = IF done.callbacks[c.task]
                                    THEN Append(@, c.task) ELSE @,
                    !.deferred = IF c.manual THEN @
                                 ELSE Append(@, DeferredPerform)],
          threw |-> FALSE]

onComplete(s, c) ==
    onCompleteNotified([s EXCEPT !.tasks[c.task].state = COMPLETE], c,
                       completed(s.owners[c.owner], c.task, c.manual))

\* iterate of the closures of task me, and the global nextIteration it
\* calls: [s, threw].  nextIteration and iterate are assigned without var:
\* they are globals, and hold the closures of the latest execute that got
\* past its guard.  The iterator is applied before the state is looked at.
RECURSIVE iterate(_, _)
callNextIteration(s, c) ==
    IF s.tasks[c.task].state # ACTIVE /\ s.tasks[c.task].state # PENDING
    THEN [s |-> s, threw |-> FALSE]
    ELSE IF s.iterations[c.task].currentIteration
                < s.iterations[c.task].length
    THEN IF s.iterations[c.task].currentIteration
                % s.iterations[c.task].step = 0
         THEN [s |-> [s EXCEPT
                         !.deferred = Append(@, DeferredIterate(c.task)),
                         !.yields[c.task] = @ + 1,
                         !.turn.yielded = Append(@, c.task)],
               threw |-> FALSE]
         ELSE iterate(s, c.task)
    ELSE onComplete(s, c)

iterate(s, me) ==
    IF ~s.tasks[me].fn
    THEN [s |-> s, threw |-> TRUE]            \* task.fn.call on null
    ELSE IF s.iterations[me].iterator = MAP
            /\ s.iterations[me].result = NullResult
    THEN [s |-> s, threw |-> TRUE]            \* task.result[idx] on null
    ELSE callNextIteration(
             [s EXCEPT
                 !.iterations[me].result =
                     iteratorResult(s.iterations[me],
                                    s.iterations[me].currentIteration),
                 !.iterations[me].currentIteration = @ + 1,
                 !.applyLog = Append(@,
                     [task |-> me,
                      idx |-> s.iterations[me].currentIteration]),
                 !.turn.applied = Append(@,
                     [task |-> me,
                      idx |-> s.iterations[me].currentIteration])],
             s.nextIteration)

\* IterationTask.execute(owner, next, manualOverride): [s, threw, next].
\* The continuation is called by onComplete, possibly in a later turn, so
\* next is FALSE here and onComplete does what the continuation does.
executeIterations(r) == [s |-> r.s, threw |-> r.threw, next |-> FALSE]

IterationTask_execute(s, taskId, ownerId, manualOverride) ==
    IF s.tasks[taskId].state = ACTIVE \/ s.tasks[taskId].state = COMPLETE
    THEN [s |-> [s EXCEPT !.lastExec =
                    [NoExec EXCEPT !.task = taskId,
                                   !.before = s.tasks[taskId].state,
                                   !.manual = manualOverride]],
          threw |-> FALSE, next |-> FALSE]
    ELSE executeIterations(
             iterate([s EXCEPT
                         !.iterations[taskId] =
                             [@ EXCEPT
                                 !.result =
                                     allocateResult(s.iterations[taskId]),
                                 !.iterator =
                                     pickIterator(s.iterations[taskId])],
                         !.nextIteration =
                             [task |-> taskId, owner |-> ownerId,
                              manual |-> manualOverride],
                         !.tasks[taskId].state = ACTIVE,
                         !.lastExec =
                             [NoExec EXCEPT
                                 !.task = taskId,
                                 !.before = s.tasks[taskId].state,
                                 !.manual = manualOverride]],
                     taskId))

\* task.execute(owner, next, returnControl) as _executeTask calls it: the
\* execute of the class of the task
taskExecute(s, taskId, ownerId, manualOverride) ==
    IF s.iterations[taskId].isIteration
    THEN IterationTask_execute(s, taskId, ownerId, manualOverride)
    ELSE execute(s, taskId, ownerId, manualOverride)

\* the continuation next of _executeTask, once task.execute returned e
executeTaskNext(e, returnControl) ==
    [s |-> IF e.next /\ ~returnControl
           THEN [e.s EXCEPT !.deferred = Append(@, DeferredPerform)]
           ELSE e.s,
     threw |-> e.threw]

\* _executeTask(task, owner, returnControl): [s, threw]
executeTask(s, taskId, ownerId, returnControl) ==
    executeTaskNext(taskExecute(s, taskId, ownerId, returnControl),
                    returnControl)

\* ------------------------------------------------------------ TaskManager
\* a priority request, as requireTask pushes it for a call without options;
\* id is its submission number (observation only).  results holds the id of
\* the task for the result of that task.
NewRequest(id, ownerId, taskIds) ==
    [id |-> id, ownerId |-> ownerId, taskIds |-> taskIds, results |-> <<>>,
     currentIdx |-> 0, callback |-> FALSE, passResults |-> FALSE]

\* request.callback(request.results) or request.callback(), when the request
\* has a callback: the entry of requestLog
requestCallback(log, req) ==
    IF req.callback
    THEN Append(log, [id |-> req.id, passed |-> req.passResults,
                      results |-> IF req.passResults THEN req.results
                                  ELSE <<>>])
    ELSE log

\* the while loop of _performPriorityTask: [req, completed, task, threw].
\* owner.get may return null inside the loop, and the loop condition then
\* calls isComplete on null (TypeError) after currentIdx was stored.
RECURSIVE walk(_, _, _, _)
walk(ow, T, req, taskId) ==
    IF isComplete(T[taskId])
    THEN LET idx == req.currentIdx + 1
             req1 == [req EXCEPT !.results = Append(@, taskId),
                                 !.currentIdx = idx]
         IN
         IF idx < Len(req.taskIds)
         THEN IF get(ow, req.taskIds[idx + 1]) = NoTask
              THEN [req |-> req1, completed |-> FALSE, task |-> NoTask,
                    threw |-> TRUE]
              ELSE walk(ow, T, req1, get(ow, req.taskIds[idx + 1]))
         ELSE [req |-> req1, completed |-> TRUE, task |-> taskId,
               threw |-> FALSE]
    ELSE [req |-> req, completed |-> FALSE, task |-> taskId, threw |-> FALSE]

\* _performPriorityTask gone wrong: the owner of the promoted task is moved
\* to the top of the stack and made the active owner
promote_activating(s, ownerId, taskId, n) ==
    IF n.ok
    THEN [s |-> [s EXCEPT !.owners[ownerId] = n.ow,
                          !.taskOwnerStack =
                              Append(SelectSeq(@, LAMBDA o : o # ownerId),
                                     ownerId),
                          !.activeTaskOwner = ownerId,
                          !.deferred = Append(@,
                              DeferredExecute(taskId, ownerId))],
          ret |-> TRUE, threw |-> FALSE]
    ELSE [s |-> s, ret |-> FALSE, threw |-> FALSE]

\* _performPriorityTask from "Execute" on: n is the result of owner.setNext
promote(s, ownerId, taskId, n) ==
    IF n.ok
    THEN [s |-> [s EXCEPT !.owners[ownerId] = n.ow,
                          !.deferred = Append(@,
                              DeferredExecute(taskId, ownerId))],
          ret |-> TRUE, threw |-> FALSE]
    ELSE [s |-> s, ret |-> FALSE, threw |-> FALSE]

\* _performPriorityTask after its while loop returned w
afterWalk(s, request, ow, w) ==
    IF w.threw
    THEN [s |-> [s EXCEPT !.priorityStack[1] = w.req], ret |-> FALSE,
          threw |-> TRUE]
    ELSE IF w.completed
    THEN [s |-> [s EXCEPT !.priorityStack = Tail(@),
                          !.popped = Append(@, w.req),
                          !.requestLog = requestCallback(@, w.req)],
          ret |-> FALSE, threw |-> FALSE]
    ELSE promote([s EXCEPT !.priorityStack[1] = w.req], request.ownerId,
                 w.task, setNext(ow, w.task))

\* _performPriorityTask for the head request and its owner
serveRequest(s, request, ow) ==
    IF get(ow, request.taskIds[request.currentIdx + 1]) = NoTask
    THEN [s |-> s, ret |-> FALSE, threw |-> FALSE]
    ELSE afterWalk(s, request, ow,
                   walk(ow, s.tasks, request,
                        get(ow, request.taskIds[request.currentIdx + 1])))

\* _performPriorityTask: [s, ret, threw]
performPriorityTask(s) ==
    IF s.priorityStack = <<>> THEN [s |-> s, ret |-> FALSE, threw |-> FALSE]
    ELSE IF s.priorityStack[1].ownerId \notin s.taskOwners
    THEN [s |-> s, ret |-> FALSE, threw |-> TRUE]   \* owner.get on undefined
    ELSE serveRequest(s, s.priorityStack[1],
                      s.owners[s.priorityStack[1].ownerId])

\* the rotation loop gone wrong: it stops one owner too late
RECURSIVE rotate_oneMore(_, _, _, _, _)
rotate_oneMore(s, task, ownersChecked, ownerNum, asked) ==
    IF task = NoTask /\ ownersChecked # ownerNum + 1
    THEN LET stack == <<Last(s.taskOwnerStack)>> \o Front(s.taskOwnerStack)
             top == Last(stack)
             g == getNext(s.owners[top], FALSE, s.tasks)
         IN
         rotate_oneMore([s EXCEPT !.taskOwnerStack = stack,
                                  !.activeTaskOwner = top,
                                  !.owners[top] = g.ow],
                        g.task, ownersChecked + 1, ownerNum,
                        Append(asked, top))
    ELSE [s |-> s, task |-> task, owner |-> s.activeTaskOwner,
          ownersChecked |-> ownersChecked, asked |-> asked]

\* the rotation loop of _performTask: [s, task, owner, ownersChecked, asked]
RECURSIVE rotate(_, _, _, _, _)
rotate(s, task, ownersChecked, ownerNum, asked) ==
    IF task = NoTask /\ ownersChecked # ownerNum
    THEN LET stack == <<Last(s.taskOwnerStack)>> \o Front(s.taskOwnerStack)
             top == Last(stack)
             g == getNext(s.owners[top], FALSE, s.tasks)
         IN
         rotate([s EXCEPT !.taskOwnerStack = stack, !.activeTaskOwner = top,
                          !.owners[top] = g.ow],
                g.task, ownersChecked + 1, ownerNum, Append(asked, top))
    ELSE [s |-> s, task |-> task, owner |-> s.activeTaskOwner,
          ownersChecked |-> ownersChecked, asked |-> asked]

\* -------------------------------------------------- observing a pass
\* a request all of whose task ids its registered owner knows
Resolvable(s, req) ==
    /\ req.ownerId \in s.taskOwners
    /\ \A i \in DOMAIN req.taskIds :
          get(s.owners[req.ownerId], req.taskIds[i]) # NoTask

\* a request with a listed task that is still to be serviced and not COMPLETE
HasIncomplete(s, req) ==
    \E i \in (req.currentIdx + 1)..Len(req.taskIds) :
        ~isComplete(s.tasks[req.taskIds[i]])

\* every queued request can be resolved and one still has work to do
PrioPending(s) ==
    /\ \A i \in DOMAIN s.priorityStack : Resolvable(s, s.priorityStack[i])
    /\ \E i \in DOMAIN s.priorityStack : HasIncomplete(s, s.priorityStack[i])

\* some owner of the stack has a pending task that is not activeOnly
Eligible(s) ==
    \E i \in DOMAIN s.taskOwnerStack :
        FirstNotActiveOnly(s.owners[s.taskOwnerStack[i]], s.tasks) # 0

\* the head of the taskOrder of the top-of-stack owner
TopHead(s) ==
    IF s.taskOwnerStack # <<>> /\ hasPending(s.owners[Last(s.taskOwnerStack)])
    THEN Head(s.owners[Last(s.taskOwnerStack)].taskOrder) ELSE NoTask

NoPass == [outcome |-> "none", task |-> NoTask, asked |-> <<>>,
           prioPending |-> FALSE, prioEmpty |-> TRUE, eligible |-> FALSE,
           topHead |-> NoTask, stack |-> <<>>, active |-> NoOwner]

PassSeen(s) ==
    [NoPass EXCEPT !.prioPending = PrioPending(s),
                   !.prioEmpty = (s.priorityStack = <<>>),
                   !.eligible = Eligible(s),
                   !.topHead = TopHead(s),
                   !.stack = s.taskOwnerStack,
                   !.active = s.activeTaskOwner]

\* ------------------------------------------------------------ _performTask
\* the end of _performTask: r is what the rotation loop returned
afterRotate(seen, ownerNum, r) ==
    IF r.task = NoTask /\ r.ownersChecked = ownerNum
    THEN [s |-> [r.s EXCEPT !.running = FALSE,
                            !.pass = [seen EXCEPT !.outcome = "idle",
                                                  !.asked = r.asked]],
          threw |-> FALSE]
    ELSE [s |-> [r.s EXCEPT !.running = TRUE,
                            !.deferred = Append(@,
                                DeferredExecute(r.task, r.owner)),
                            !.pass = [seen EXCEPT !.outcome = "owner",
                                                  !.task = r.task,
                                                  !.asked = r.asked]],
          threw |-> FALSE]

\* the first owner.getNext() of _performTask (g) and the loop after it.
\* getNext is called without an argument: isActive is undefined, that is
\* false, in Owner.getNext.
firstOwner(s, top, g) ==
    rotate([s EXCEPT !.owners[top] = g.ow], g.task, 1,
           Len(s.taskOwnerStack), <<top>>)

\* _performTask from "make sure there are task owners" on
ownerPass(seen, s) ==
    IF s.taskOwnerStack = <<>>
    THEN [s |-> [s EXCEPT !.running = FALSE,
                          !.pass = [seen EXCEPT !.outcome = "idle"]],
          threw |-> FALSE]
    ELSE IF s.activeTaskOwner \notin s.taskOwners
    THEN [s |-> [s EXCEPT !.pass = [seen EXCEPT !.outcome = "threw"]],
          threw |-> TRUE]                     \* getNext on undefined
    ELSE afterRotate(seen, Len(s.taskOwnerStack),
                     firstOwner(s, s.activeTaskOwner,
                                getNext(s.owners[s.activeTaskOwner], FALSE,
                                        s.tasks)))

\* _performTask once _performPriorityTask returned p
afterPriority(seen, p) ==
    IF p.threw
    THEN [s |-> [p.s EXCEPT !.pass = [seen EXCEPT !.outcome = "threw"]],
          threw |-> TRUE]
    ELSE IF p.ret
    THEN [s |-> [p.s EXCEPT !.running = TRUE,
                            !.pass = [seen EXCEPT
                                !.outcome = "priority",
                                !.task = Last(p.s.deferred).task]],
          threw |-> FALSE]
    ELSE ownerPass(seen, p.s)

\* _performTask: [s, threw]
performTask(s) == afterPriority(PassSeen(s), performPriorityTask(s))

\* _activate gone wrong: the id is pushed and its old entry is left in place
activate_noSplice(s, ownerId) ==
    IF ownerId \notin s.taskOwners THEN [s |-> s, threw |-> FALSE]
    ELSE IF s.activeTaskOwner = ownerId THEN [s |-> s, threw |-> FALSE]
    ELSE IF LastIndex(s.taskOwnerStack, ownerId) = 0
    THEN [s |-> s, threw |-> FALSE]
    ELSE [s |-> [s EXCEPT !.taskOwnerStack = Append(@, ownerId),
                          !.activeTaskOwner = ownerId],
          threw |-> TRUE]

\* _activate: [s, threw].  The log line of the loop reads activeOwnerId,
\* which is not in scope: a ReferenceError, raised after the owner was moved.
activate(s, ownerId) ==
    IF ownerId \notin s.taskOwners THEN [s |-> s, threw |-> FALSE]
    ELSE IF s.activeTaskOwner = ownerId THEN [s |-> s, threw |-> FALSE]
    ELSE IF LastIndex(s.taskOwnerStack, ownerId) = 0
    THEN [s |-> s, threw |-> FALSE]
    ELSE [s |-> [s EXCEPT !.taskOwnerStack =
                     Append(Splice(@, LastIndex(@, ownerId)), ownerId),
                          !.activeTaskOwner = ownerId],
          threw |-> TRUE]

\* TaskManager.check after its call of _activate, if any, returned a
checkRunning(a) ==
    IF a.threw \/ a.s.running THEN a ELSE performTask(a.s)

\* TaskManager.check: [s, threw]
check(s, activeOwnerId) ==
    checkRunning(IF activeOwnerId # NoOwner
                    /\ s.activeTaskOwner # activeOwnerId
                 THEN activate(s, activeOwnerId)
                 ELSE [s |-> s, threw |-> FALSE])

\* _performImmediateTask: [s, threw]
performImmediateTask(s, ownerId, taskId) ==
    IF ownerId \notin s.taskOwners THEN [s |-> s, threw |-> FALSE]
    ELSE IF get(s.owners[ownerId], taskId) = NoTask
    THEN [s |-> s, threw |-> FALSE]
    ELSE IF isComplete(s.tasks[taskId]) THEN [s |-> s, threw |-> FALSE]
    ELSE executeTask(s, taskId, ownerId, TRUE)

\* _.each / _.map of _performImmediateTask over the taskId array; r is the
\* result for the ids before taskIds
RECURSIVE performImmediateTasks(_, _, _)
performImmediateTasks(r, ownerId, taskIds) ==
    IF taskIds = <<>> \/ r.threw THEN r
    ELSE performImmediateTasks(
             performImmediateTask(r.s, ownerId, Head(taskIds)),
             ownerId, Tail(taskIds))

\* the options of a requireTask call: callback says that a function was
\* passed
NoOptions == [immediate |-> FALSE, callback |-> FALSE, passResults |-> FALSE]

\* observation of a requireTask call with immediate: whether it ended with
\* an error, and the array each invocation of options.callback was passed
NoImmediate == [called |-> FALSE, raised |-> FALSE, callbacks |-> <<>>]

\* TaskManager.requireTask, the branch with immediate, once _.each / _.map
\* returned r: the line that invokes the callback reads option.callback, and
\* no variable option is declared: a ReferenceError, whatever options holds,
\* before options.callback is reached
immediateCallback(r, options) ==
    [s |-> [r.s EXCEPT !.immediate = [called |-> TRUE, raised |-> TRUE,
                                      callbacks |-> <<>>]],
     threw |-> TRUE]

\* TaskManager.requireTask, the branch with immediate: [s, threw]
requireTaskImmediate(s, ownerId, taskIds, options) ==
    immediateCallback(
        performImmediateTasks(
            [s |-> [s EXCEPT !.requestCounter = @ + 1], threw |-> FALSE],
            ownerId, taskIds),
        options)

\* ------------------------------------------------------ public API calls
\* the state a step starts from: the observations of the step before it are
\* dropped
Start == [Cur EXCEPT !.pass = NoPass, !.lastExec = NoExec, !.turn = NoTurn,
                     !.immediate = NoImmediate]

\* TaskManager.register
register(s) ==
    [s EXCEPT !.ownerCounter = @ + 1,
              !.owners[s.ownerCounter] = NewOwner,
              !.taskOwners = @ \cup {s.ownerCounter},
              !.taskOwnerStack = Append(@, s.ownerCounter),
              !.activeTaskOwner = s.ownerCounter]

\* unregister gone wrong: the top of the stack is popped whoever leaves
unregisterStack_pop(s, ownerId) == Front(s.taskOwnerStack)

\* the stack TaskManager.unregister leaves
unregisterStack(s, ownerId) ==
    IF s.activeTaskOwner = ownerId THEN Front(s.taskOwnerStack)
    ELSE IF LastIndex(s.taskOwnerStack, ownerId) = 0 THEN s.taskOwnerStack
    ELSE Splice(s.taskOwnerStack, LastIndex(s.taskOwnerStack, ownerId))

\* TaskManager.unregister
unregister(s, ownerId) ==
    IF ownerId \notin s.taskOwners THEN s
    ELSE [s EXCEPT
            !.tasks = [t \in TaskIds |->
                          IF t \in DestroyedBy(s.owners[ownerId])
                          THEN Task_destroy(@[t]) ELSE @[t]],
            !.callbacks = [t \in TaskIds |->
                              t \notin DestroyedBy(s.owners[ownerId])
                              /\ @[t]],
            !.iterations = [t \in TaskIds |->
                               IF t \in DestroyedBy(s.owners[ownerId])
                               THEN [@[t] EXCEPT !.result = NullResult]
                               ELSE @[t]],
            !.owners[ownerId] = destroy(@),
            !.taskOwners = @ \ {ownerId},
            !.taskOwnerStack = unregisterStack(s, ownerId),
            !.activeTaskOwner =
                IF unregisterStack(s, ownerId) = <<>> THEN NoOwner
                ELSE Last(unregisterStack(s, ownerId))]

\* requireTask gone wrong: the request goes to the front of the queue
requireTask_unshift(s, ownerId, taskIds) ==
    [s EXCEPT !.requestCounter = @ + 1,
              !.priorityStack =
                  <<NewRequest(s.requestCounter + 1, ownerId, taskIds)>> \o @]

\* TaskManager.requireTask, the branch without immediate: the push
requireTask(s, ownerId, taskIds) ==
    [s EXCEPT !.requestCounter = @ + 1,
              !.priorityStack = Append(@,
                  NewRequest(s.requestCounter + 1, ownerId, taskIds))]

\* TaskManager.requireTask, the branch without immediate, for a call with
\* options: the request holds options.callback and options.passResults
requireTaskOptions(s, ownerId, taskIds, options) ==
    [s EXCEPT !.requestCounter = @ + 1,
              !.priorityStack = Append(@,
                  [NewRequest(s.requestCounter + 1, ownerId, taskIds)
                      EXCEPT !.callback = options.callback,
                             !.passResults = options.passResults])]

\* Owner.add for each definition of the array, with ids from _taskIdCounter
RECURSIVE addAll(_, _, _)
addAll(s, ownerId, defs) ==
    IF defs = <<>> THEN s
    ELSE addAll([s EXCEPT !.taskIdCounter = @ + 1,
                          !.tasks[s.taskIdCounter] =
                              NewTask(ownerId, Head(defs)),
                          !.owners[ownerId] = add(@, s.taskIdCounter)],
                ownerId, Tail(defs))

\* Owner.add of one definition: an IterationTask when the definition has an
\* iterate part, a Task otherwise
addConfig(s, ownerId, config) ==
    [s EXCEPT !.taskIdCounter = @ + 1,
              !.tasks[s.taskIdCounter] = NewTask(ownerId, config.activeOnly),
              !.callbacks[s.taskIdCounter] = constructCallback(config),
              !.iterations[s.taskIdCounter] =
                  IF config.iterate THEN NewIterationTask(config)
                  ELSE NoIteration,
              !.configs[s.taskIdCounter] = config,
              !.owners[ownerId] = add(@, s.taskIdCounter)]

\* Task.destroy called on task taskId: the state, and the references to fn,
\* result and callback it releases
destroyTask(s, taskId) ==
    [s EXCEPT !.tasks[taskId] = Task_destroy(@),
              !.callbacks[taskId] = FALSE,
              !.iterations[taskId].result = NullResult]

\* ----------------------------------------------------------------- steps
Init ==
    /\ taskOwners = {}
    /\ taskOwnerStack = <<>>
    /\ activeTaskOwner = NoOwner
    /\ priorityStack = <<>>
    /\ running = FALSE
    /\ ownerCounter = FirstOwnerId
    /\ taskIdCounter = FirstTaskId
    /\ owners = [o \in OwnerIds |-> NewOwner]
    /\ tasks = [t \in TaskIds |-> AbsentTask]
    /\ deferred = <<>>
    /\ callbacks = [t \in TaskIds |-> FALSE]
    /\ iterations = [t \in TaskIds |-> NoIteration]
    /\ nextIteration = NoClosure
    /\ configs = [t \in TaskIds |-> NoConfig]
    /\ applyLog = <<>>
    /\ callbackLog = <<>>
    /\ yields = [t \in TaskIds |-> 0]
    /\ turn = NoTurn
    /\ immediate = NoImmediate
    /\ requestLog = <<>>
    /\ execLog = <<>>
    /\ requestCounter = 0
    /\ popped = <<>>
    /\ pass = NoPass
    /\ lastExec = NoExec

\* TaskManager.register(name, owner)
Register ==
    /\ ownerCounter \in OwnerIds
    /\ Becomes(register(Start))

\* TaskManager.unregister(ownerId)
Unregister(ownerId) ==
    /\ ownerId \in OwnerIds
    /\ Becomes(unregister(Start, ownerId))

\* activate once _activate returned a: an error of _activate ends the call
activateCheck(a) ==
    IF a.threw THEN a ELSE check(a.s, NoOwner)

\* TaskManager.activate(ownerId)
Activate(ownerId) ==
    /\ ownerId \in OwnerIds
    /\ Becomes(activateCheck(activate(Start, ownerId)).s)

\* TaskManager.addTask(ownerId, task): defs is the activeOnly flag of each
\* definition passed.  An unknown ownerId raises a TypeError before anything
\* is constructed.
AddTask(ownerId, defs) ==
    /\ taskIdCounter + Len(defs) - 1 \in TaskIds
    /\ Becomes(IF ownerId \notin taskOwners THEN Start
               ELSE check(addAll(Start, ownerId, defs), ownerId).s)

\* TaskManager.requireTask(ownerId, taskId, {immediate: true}): after the
\* tasks were performed the code reads option.callback, and option is not
\* declared: a ReferenceError.
RequireTaskImmediate(ownerId, taskIds) ==
    /\ requestCounter < MaxRequests
    /\ Becomes(requireTaskImmediate(Start, ownerId, taskIds,
                                    [NoOptions EXCEPT !.immediate = TRUE]).s)

\* TaskManager.requireTask(ownerId, taskId, options) without immediate
RequireTask(ownerId, taskIds) ==
    /\ requestCounter < MaxRequests
    /\ Becomes(check(requireTask(Start, ownerId, taskIds), NoOwner).s)

\* TaskManager.requireTask(ownerId, taskId, options)
RequireTaskOptions(ownerId, taskIds, options) ==
    /\ requestCounter < MaxRequests
    /\ Becomes(IF options.immediate
               THEN requireTaskImmediate(Start, ownerId, taskIds, options).s
               ELSE check(requireTaskOptions(Start, ownerId, taskIds,
                                             options), NoOwner).s)

\* TaskManager.check(activeOwnerId); NoOwner: called without an argument
Check(activeOwnerId) ==
    /\ activeOwnerId \in OwnerIds \cup {NoOwner}
    /\ Becomes(check(Start, activeOwnerId).s)

\* the host runs a deferred _performTask (an error it raises ends the turn)
DeferredPerformTask ==
    /\ deferred # <<>>
    /\ Head(deferred).fn = "_performTask"
    /\ Becomes(performTask([Start EXCEPT !.deferred = Tail(@)]).s)

\* the host runs a deferred _executeTask(task, owner)
DeferredExecuteTask ==
    /\ deferred # <<>>
    /\ Head(deferred).fn = "_executeTask"
    /\ Becomes(executeTask([Start EXCEPT !.deferred = Tail(@)],
                           Head(deferred).task, Head(deferred).owner,
                           FALSE).s)

\* the application, or a scheduler of its own, calls the methods of an Owner
\* it holds: add(definition)
OwnerAdd(ownerId, activeOnly) ==
    /\ ownerId \in taskOwners
    /\ taskIdCounter \in TaskIds
    /\ Becomes(addAll(Start, ownerId, <<activeOnly>>))

\* getNext(isActive)
OwnerGetNext(ownerId, isActive) ==
    /\ ownerId \in taskOwners
    /\ Becomes([Start EXCEPT !.owners[ownerId] =
                                 getNext(@, isActive, tasks).ow])

\* setNext(taskId)
OwnerSetNext(ownerId, taskId) ==
    /\ ownerId \in taskOwners
    /\ Becomes([Start EXCEPT !.owners[ownerId] = setNext(@, taskId).ow])

\* completed(task, manualOverride), for a task that was constructed
OwnerCompleted(ownerId, taskId, manualOverride) ==
    /\ ownerId \in taskOwners
    /\ taskId \in TaskIds /\ taskId < taskIdCounter
    /\ Becomes([Start EXCEPT !.owners[ownerId] =
                                 completed(@, taskId, manualOverride).ow])

TaskOwnerIds == FirstOwnerId..(FirstOwnerId + MaxTaskOwners - 1)
IterationCount == Cardinality({t \in TaskIds : iterations[t].isIteration})

\* TaskManager.register(name, owner), for the first owners only
RegisterOwner ==
    /\ ownerCounter \in TaskOwnerIds
    /\ Becomes(register(Start))

\* TaskManager.addTask(ownerId, definition) with one definition
AddTaskConfig(ownerId, config) ==
    /\ taskIdCounter \in TaskIds
    /\ config.iterate => IterationCount < MaxIterations
    /\ Becomes(IF ownerId \notin taskOwners THEN Start
               ELSE check(addConfig(Start, ownerId, config), ownerId).s)

\* TaskManager.addTask(ownerId, definition) with the definition of an
\* IterationTask, as often as there are task ids
AddIterationTask(ownerId, config) ==
    /\ taskIdCounter \in TaskIds
    /\ config.iterate
    /\ Becomes(IF ownerId \notin taskOwners THEN Start
               ELSE check(addConfig(Start, ownerId, config), ownerId).s)

\* the application calls pause() on a task it holds
Pause(taskId) ==
    /\ taskId \in TaskIds /\ taskId < taskIdCounter
    /\ Becomes([Start EXCEPT !.tasks[taskId] = pause(@)])

\* the application calls destroy() on a task it holds
Destroy(taskId) ==
    /\ taskId \in TaskIds /\ taskId < taskIdCounter
    /\ Becomes(destroyTask(Start, taskId))

\* the host runs a deferred iterate (an error it raises ends the turn)
DeferredIterateTurn ==
    /\ deferred # <<>>
    /\ Head(deferred).fn = "iterate"
    /\ Becomes(iterate([Start EXCEPT !.deferred = Tail(@)],
                       Head(deferred).task).s)

\* the definitions handed to addTask: of plain tasks, of IterationTasks
TaskConfigs == {[NoConfig EXCEPT !.callback = cb] : cb \in BOOLEAN}
IterationConfigs ==
    [activeOnly : {FALSE}, callback : BOOLEAN, iterate : {TRUE},
     length : 0..MaxLen, isArray : BOOLEAN, type : {EACH, MAP, REDUCE},
     step : 1..MaxStep]

Options == [immediate : BOOLEAN, callback : BOOLEAN, passResults : BOOLEAN]

\* the definitions of IterationTasks over arrays that are not empty
ArrayConfigs ==
    {c \in IterationConfigs :
        c.length > 0 /\ c.isArray /\ c.type = EACH /\ ~c.callback}

TaskIdLists == UNION {[1..n -> TaskIds] : n \in 1..MaxTaskIds}
TaskDefLists == UNION {[1..n -> BOOLEAN] : n \in 1..MaxTasks}

Next ==
    \/ Register
    \/ \E ownerId \in OwnerIds : Unregister(ownerId)
    \/ \E ownerId \in OwnerIds : Activate(ownerId)
    \/ \E ownerId \in OwnerIds, defs \in TaskDefLists : AddTask(ownerId, defs)
    \/ \E ownerId \in OwnerIds, taskIds \in TaskIdLists :
          RequireTaskImmediate(ownerId, taskIds)
    \/ \E ownerId \in OwnerIds, taskIds \in TaskIdLists :
          RequireTask(ownerId, taskIds)
    \/ \E activeOwnerId \in OwnerIds \cup {NoOwner} : Check(activeOwnerId)
    \/ DeferredPerformTask
    \/ DeferredExecuteTask

Spec == Init /\ [][Next]_vars

\* the owners on their own: their methods called in any order
OwnerNext ==
    \/ Register
    \/ \E ownerId \in OwnerIds, activeOnly \in BOOLEAN :
          OwnerAdd(ownerId, activeOnly)
    \/ \E ownerId \in OwnerIds, isActive \in BOOLEAN :
          OwnerGetNext(ownerId, isActive)
    \/ \E ownerId \in OwnerIds, taskId \in TaskIds :
          OwnerSetNext(ownerId, taskId)
    \/ \E ownerId \in OwnerIds, taskId \in TaskIds,
          manualOverride \in BOOLEAN :
          OwnerCompleted(ownerId, taskId, manualOverride)

OwnerSpec == Init /\ [][OwnerNext]_vars

\* the manager with its owners and plain tasks, and an application that
\* requires tasks with every combination of options
RequestNext ==
    \/ Register
    \/ \E ownerId \in OwnerIds, defs \in TaskDefLists : AddTask(ownerId, defs)
    \/ \E ownerId \in OwnerIds, taskIds \in TaskIdLists, options \in Options :
          RequireTaskOptions(ownerId, taskIds, options)
    \/ DeferredPerformTask
    \/ DeferredExecuteTask

RequestSpec == Init /\ [][RequestNext]_vars

\* the manager with one owner, plain tasks built from definitions with and
\* without a callback, and an application that pauses and destroys the
\* tasks it holds
TaskNext ==
    \/ RegisterOwner
    \/ \E ownerId \in TaskOwnerIds : Unregister(ownerId)
    \/ \E ownerId \in TaskOwnerIds, config \in TaskConfigs :
          AddTaskConfig(ownerId, config)
    \/ \E ownerId \in TaskOwnerIds, taskIds \in TaskIdLists :
          RequireTaskImmediate(ownerId, taskIds)
    \/ \E ownerId \in TaskOwnerIds, taskIds \in TaskIdLists :
          RequireTask(ownerId, taskIds)
    \/ \E taskId \in TaskIds : Pause(taskId)
    \/ \E taskId \in TaskIds : Destroy(taskId)
    \/ DeferredPerformTask
    \/ DeferredExecuteTask

TaskSpec == Init /\ [][TaskNext]_vars

\* the manager with one owner, plain tasks and IterationTasks, immediate
\* requests, and an application that pauses and destroys the tasks it holds
IterationNext ==
    \/ RegisterOwner
    \/ \E ownerId \in TaskOwnerIds,
          config \in TaskConfigs \cup IterationConfigs :
          AddTaskConfig(ownerId, config)
    \/ \E ownerId \in TaskOwnerIds, taskIds \in TaskIdLists :
          RequireTaskImmediate(ownerId, taskIds)
    \/ \E taskId \in TaskIds : Pause(taskId)
    \/ \E taskId \in TaskIds : Destroy(taskId)
    \/ DeferredPerformTask
    \/ DeferredExecuteTask
    \/ DeferredIterateTurn

IterationSpec == Init /\ [][IterationNext]_vars

\* the manager with one owner and IterationTasks only, started by the
\* scheduler and by immediate requests, and left alone by the application
InterleaveNext ==
    \/ RegisterOwner
    \/ \E ownerId \in TaskOwnerIds, config \in ArrayConfigs :
          AddIterationTask(ownerId, config)
    \/ \E ownerId \in TaskOwnerIds, taskIds \in TaskIdLists :
          RequireTaskImmediate(ownerId, taskIds)
    \/ DeferredPerformTask
    \/ DeferredExecuteTask
    \/ DeferredIterateTurn

InterleaveSpec == Init /\ [][InterleaveNext]_vars

\* ---------------------------------------------------------- type checking
TypeOK ==
    /\ taskOwners \subseteq OwnerIds
    /\ running \in BOOLEAN
    /\ Range(taskOwnerStack) \subseteq OwnerIds
    /\ Len(deferred) <= 1

\* ------------------------------------------------------------ the claims
\* how often fn of task t was applied
Runs(t) == Cardinality({i \in DOMAIN execLog : execLog[i] = t})

\* C1: priority requests preempt owner-stack work: a dispatch pass that
\* starts with a resolvable priority request that still has a task that is
\* not COMPLETE chooses its task from the priority queue, never from an
\* owner's getNext.
C1_PriorityPreempts ==
    (pass.outcome # "none" /\ pass.prioPending) => pass.outcome = "priority"

\* C3: whenever running is true a scheduling turn is pending in the host's
\* queue of deferred calls.
C3_RunningHasTurn == running => deferred # <<>>

\* C4: a pass that reaches the owner stack takes the head of the taskOrder
\* of the top-of-stack owner, whether or not that task is activeOnly.
C4_TopOwnerAskedAsActive ==
    (pass.outcome \in {"owner", "idle"} /\ pass.topHead # NoTask)
        => pass.task = pass.topHead

\* C5: FIFO per owner: as long as no requireTask was called, of two tasks of
\* one owner with the same activeOnly value the one added later has its fn
\* applied only after the one added earlier (ids are handed out in the order
\* of the adds).
C5_FifoPerOwner ==
    requestCounter = 0 =>
        \A a, b \in TaskIds :
            (/\ a < b
             /\ tasks[a].owner = tasks[b].owner
             /\ tasks[a].activeOnly = tasks[b].activeOnly
             /\ b \in Range(execLog))
                => /\ a \in Range(execLog)
                   /\ FirstIndex(execLog, a) < FirstIndex(execLog, b)

C5_Witness ==
    /\ requestCounter = 0
    /\ execLog = <<FirstTaskId, FirstTaskId + 1>>
    /\ tasks[FirstTaskId].owner = tasks[FirstTaskId + 1].owner
    /\ ~tasks[FirstTaskId].activeOnly /\ ~tasks[FirstTaskId + 1].activeOnly

\* C9: owner rotation terminates: a pass that starts with an empty priority
\* queue and no owner holding a task getNext() would hand out asks each owner
\* of the stack at most once and ends idle: running is false and no turn is
\* scheduled.
C9_RotationTerminates ==
    (pass.outcome # "none" /\ pass.prioEmpty /\ ~pass.eligible)
        => /\ pass.outcome = "idle"
           /\ \A i, j \in DOMAIN pass.asked :
                 pass.asked[i] = pass.asked[j] => i = j
           /\ Range(pass.asked) \subseteq Range(taskOwnerStack)
           /\ ~running
           /\ deferred = <<>>

C9_Witness ==
    /\ pass.outcome = "idle" /\ pass.prioEmpty /\ ~pass.eligible
    /\ Len(pass.asked) = MaxOwners
    /\ \E o \in taskOwners : hasPending(owners[o])

\* C10: the body of a task runs at most once, and an execute of a task that
\* is ACTIVE or COMPLETE applies no fn, notifies no owner and calls no
\* continuation.
C10_ExecuteOnce ==
    /\ \A t \in TaskIds : Runs(t) <= 1
    /\ (lastExec.task # NoTask /\ lastExec.before \in {ACTIVE, COMPLETE})
           => /\ ~lastExec.ranFn /\ ~lastExec.notified /\ ~lastExec.calledNext
              /\ Runs(lastExec.task) = (IF lastExec.before = COMPLETE
                                         THEN 1 ELSE 0)

C10_Witness ==
    /\ lastExec.task # NoTask
    /\ lastExec.before = COMPLETE
    /\ Runs(lastExec.task) = 1

\* the listed tasks of a request up to index n are COMPLETE
CompleteUpTo(req, n) ==
    \A k \in 1..n : isComplete(tasks[req.taskIds[k]])

MovedToTop(stack, ownerId) ==
    Append(SelectSeq(stack, LAMBDA o : o # ownerId), ownerId)

\* C6: addTask on a registered owner adds the task, leaves the owner at the
\* top of the stack as the active owner, and runs a scheduling check: an idle
\* dispatcher starts a dispatch pass.
C6_AddTaskChecks ==
    [][\A ownerId \in OwnerIds, defs \in TaskDefLists :
          (AddTask(ownerId, defs) /\ ownerId \in taskOwners)
              => /\ taskIdCounter' = taskIdCounter + Len(defs)
                 /\ Last(taskOwnerStack') = ownerId
                 /\ activeTaskOwner' = ownerId
                 /\ ~running => pass'.outcome # "none"]_vars

\* C7: activate moves a registered owner that is not the top to the top,
\* keeps the order of the other owners and triggers a scheduling check (an
\* idle dispatcher starts a dispatch pass); for the top owner and for an
\* unknown id the stack and the active owner stay as they are.
C7_ActivateChecks ==
    [][\A ownerId \in OwnerIds :
          Activate(ownerId)
              => IF ownerId \in taskOwners /\ ownerId # Last(taskOwnerStack)
                 THEN /\ taskOwnerStack' = MovedToTop(taskOwnerStack, ownerId)
                      /\ activeTaskOwner' = ownerId
                      /\ ~running => pass'.outcome # "none"
                 ELSE UNCHANGED <<taskOwnerStack, activeTaskOwner>>]_vars

\* C8: unregister of a registered owner removes the id from the registry and
\* from the stack, keeps the order of the other owners and makes the new top
\* (none on an empty stack) the active owner; for an unknown id nothing
\* changes.
C8_Unregister ==
    [][\A ownerId \in OwnerIds :
          Unregister(ownerId)
              => IF ownerId \in taskOwners
                 THEN /\ taskOwners' = taskOwners \ {ownerId}
                      /\ taskOwnerStack' =
                            SelectSeq(taskOwnerStack, LAMBDA o : o # ownerId)
                      /\ activeTaskOwner' =
                            IF taskOwnerStack' = <<>> THEN NoOwner
                            ELSE Last(taskOwnerStack')
                 ELSE UNCHANGED <<taskOwners, taskOwnerStack, activeTaskOwner,
                                  priorityStack, running, ownerCounter,
                                  taskIdCounter, owners, tasks, deferred>>]_vars

\* an owner was unregistered and the owner registered after it is left as
\* the active owner
C8_Witness ==
    /\ ownerCounter > FirstOwnerId + 1
    /\ FirstOwnerId \notin taskOwners
    /\ taskOwnerStack = <<FirstOwnerId + 1>>
    /\ activeTaskOwner = FirstOwnerId + 1

\* how often the callback of task t was invoked
Calls(t) == Cardinality({i \in DOMAIN callbackLog : callbackLog[i] = t})

\* C11: a task built from a definition that supplies a callback has invoked
\* that callback exactly once when it is COMPLETE, and never before.
C11_CallbackOnce ==
    \A t \in TaskIds :
        configs[t].callback
            => Calls(t) = (IF isComplete(tasks[t]) THEN 1 ELSE 0)

\* the five declared states and the moves between them; a step that executes
\* a task takes it from PENDING through ACTIVE to COMPLETE
DeclaredStates == {PENDING, ACTIVE, COMPLETE, CANCELLED, PAUSED}
DeclaredMoves ==
    {<<PENDING, ACTIVE>>, <<ACTIVE, COMPLETE>>, <<PENDING, COMPLETE>>,
     <<PENDING, CANCELLED>>, <<ACTIVE, CANCELLED>>,
     <<PENDING, PAUSED>>, <<PAUSED, PENDING>>}

\* C12: the state of every constructed task is one of the five declared
\* values, a step changes it only along PENDING -> ACTIVE -> COMPLETE,
\* PENDING/ACTIVE -> CANCELLED or PENDING -> PAUSED -> PENDING, and a
\* COMPLETE or CANCELLED task keeps its state.
C12_DeclaredStates ==
    [][\A t \in TaskIds :
          t < taskIdCounter'
              => /\ tasks'[t].state \in DeclaredStates
                 /\ (t < taskIdCounter /\ tasks'[t].state # tasks[t].state)
                        => <<tasks[t].state, tasks'[t].state>>
                               \in DeclaredMoves]_vars

\* C13: pause() on a task that is not COMPLETE leaves it PAUSED, and a step
\* that starts with a task in the state pause() leaves (and no other call
\* on it since) does not schedule its execution and does not apply its fn.
C13_PausedSkipped ==
    [][/\ \A t \in TaskIds :
             (Pause(t) /\ ~isComplete(tasks[t]))
                 => tasks'[t].state = PAUSED
       /\ \A t \in TaskIds :
             (/\ t < taskIdCounter
              /\ tasks[t].fn
              /\ tasks[t].state = pause(tasks[t]).state
              /\ tasks[t].state # COMPLETE)
                 => /\ Runs(t)' = Runs(t)
                    /\ \A i \in DOMAIN deferred' :
                          (deferred'[i].fn = "_executeTask"
                           /\ deferred'[i].task = t)
                              => \E j \in DOMAIN deferred :
                                    deferred[j] = deferred'[i]]_vars

\* C14: unregister of an owner (Owner.destroy) leaves each of its pending
\* tasks and its live task CANCELLED, or COMPLETE when it was COMPLETE, and
\* releases the owner's collections; destroy() on a task that was destroyed
\* before changes nothing.
C14_DestroyCascades ==
    [][/\ \A ownerId \in OwnerIds :
             (Unregister(ownerId) /\ ownerId \in taskOwners)
                 => /\ \A t \in DestroyedBy(owners[ownerId]) :
                          tasks'[t].state = (IF isComplete(tasks[t])
                                             THEN COMPLETE ELSE CANCELLED)
                    /\ owners'[ownerId].tasks = {}
                    /\ owners'[ownerId].taskOrder = <<>>
                    /\ owners'[ownerId].completedTasks = {}
       /\ \A t \in TaskIds :
             (Destroy(t) /\ ~tasks[t].fn)
                 => UNCHANGED <<tasks, callbacks, iterations>>]_vars

\* the indices fn of IterationTask t was applied to, in order
Applied(log, t) ==
    LET mine == SelectSeq(log, LAMBDA a : a.task = t) IN
    [i \in DOMAIN mine |-> mine[i].idx]

IterationTasks == {t \in TaskIds : iterations[t].isIteration}

\* C15: iteration count: fn of an IterationTask over L elements is applied
\* to the indices 0, 1, ... in turn and to nothing else, the task is
\* COMPLETE only when fn was applied exactly L times, and it is COMPLETE
\* once the L-th application was made.
C15_IterationCount ==
    \A t \in IterationTasks :
        /\ Len(Applied(applyLog, t)) <= iterations[t].length
        /\ \A i \in DOMAIN Applied(applyLog, t) :
              Applied(applyLog, t)[i] = i - 1
        /\ isComplete(tasks[t])
              => Len(Applied(applyLog, t)) = iterations[t].length
        /\ (iterations[t].length > 0
            /\ Len(Applied(applyLog, t)) = iterations[t].length)
              => isComplete(tasks[t])

\* C16: MAP result: a COMPLETE IterationTask of type map that was not
\* destroyed holds a result of the shape of its list with a value stored at
\* every index (or key) of the list and nowhere else.
C16_MapResult ==
    \A t \in IterationTasks :
        (/\ iterations[t].iterationType = MAP
         /\ isComplete(tasks[t])
         /\ tasks[t].fn)
            => /\ iterations[t].result.shape =
                     (IF iterations[t].isArray THEN "array" ELSE "object")
               /\ iterations[t].result.at = 0..(iterations[t].length - 1)

\* ceil(n / k)
CeilDiv(n, k) == (n + k - 1) \div k

\* C17: step batching: no turn applies fn of an IterationTask more than
\* step times, a turn in which the task suspends has applied fn step times,
\* and a COMPLETE task has suspended ceil(length / step) times.
C17_StepBatching ==
    \A t \in IterationTasks :
        /\ Len(Applied(turn.applied, t)) <= iterations[t].step
        /\ t \in Range(turn.yielded)
              => Len(Applied(turn.applied, t)) = iterations[t].step
        /\ isComplete(tasks[t])
              => yields[t] = CeilDiv(iterations[t].length, iterations[t].step)

\* C18: currentIteration of an IterationTask never decreases and never
\* exceeds length, and the task is COMPLETE exactly when currentIteration
\* equals length.
C18_CursorInvariant ==
    [][\A t \in TaskIds :
          iterations'[t].isIteration
              => /\ iterations[t].isIteration
                       => iterations'[t].currentIteration
                              >= iterations[t].currentIteration
                 /\ iterations'[t].currentIteration <= iterations'[t].length
                 /\ isComplete(tasks'[t])
                       <=> (iterations'[t].currentIteration
                                = iterations'[t].length)]_vars

\* C19: mid-iteration guard: a resumed turn of an IterationTask whose state
\* is neither ACTIVE nor PENDING (it was paused or destroyed while
\* suspended) applies fn to no element and leaves the result as it is.
C19_MidIterationGuard ==
    [][(/\ DeferredIterateTurn
        /\ tasks[Head(deferred).task].state # ACTIVE
        /\ tasks[Head(deferred).task].state # PENDING)
           => /\ applyLog' = applyLog
              /\ iterations'[Head(deferred).task].result
                     = iterations[Head(deferred).task].result]_vars

\* the entries a step appended to a log
Added(before, after) == SubSeq(after, Len(before) + 1, Len(after))

\* C20: when requireTask with immediate = true returns, every listed task
\* the owner knows is COMPLETE, plain Task or IterationTask, and the fns
\* applied by the call were applied in listed order.
C20_ImmediateCompletes ==
    [][\A ownerId \in OwnerIds, taskIds \in TaskIdLists :
          (RequireTaskImmediate(ownerId, taskIds) /\ ownerId \in taskOwners)
              => /\ \A i \in DOMAIN taskIds :
                       get(owners[ownerId], taskIds[i]) # NoTask
                           => isComplete(tasks'[taskIds[i]])
                 /\ \A a, b \in DOMAIN Added(execLog, execLog') :
                       a < b => FirstIndex(taskIds,
                                           Added(execLog, execLog')[a])
                                  <= FirstIndex(taskIds,
                                                Added(execLog, execLog')[b])
                 /\ \A a, b \in DOMAIN turn'.applied :
                       a < b => FirstIndex(taskIds, turn'.applied[a].task)
                                  <= FirstIndex(taskIds,
                                                turn'.applied[b].task)]_vars

\* C21: requireTask with immediate = true returns without an error, and
\* when options.callback is given it is invoked exactly once, with the
\* results of the listed tasks in listed order.
C21_ImmediateReturns ==
    [][\A ownerId \in OwnerIds, taskIds \in TaskIdLists, options \in Options :
          (RequireTaskOptions(ownerId, taskIds, options) /\ options.immediate)
              => /\ immediate'.called
                 /\ ~immediate'.raised
                 /\ immediate'.callbacks = (IF options.callback
                                            THEN <<taskIds>> ELSE <<>>)]_vars

\* the invocations of the callback of request req
RequestCalls(req) == {k \in DOMAIN requestLog : requestLog[k].id = req.id}

\* C22: a request that was removed from the priority queue had all its
\* listed tasks COMPLETE and its callback, if any, invoked exactly once, with
\* one result per listed id in listed order when passResults is set and with
\* no argument otherwise; the callback of a queued request was not invoked;
\* and when no turn is pending, no request whose ids all exist in a
\* registered owner and whose listed tasks are all COMPLETE is left queued.
C22_RequestCallback ==
    /\ \A i \in DOMAIN popped :
          /\ CompleteUpTo(popped[i], Len(popped[i].taskIds))
          /\ popped[i].results = popped[i].taskIds
          /\ Cardinality(RequestCalls(popped[i]))
                 = (IF popped[i].callback THEN 1 ELSE 0)
          /\ \A k \in RequestCalls(popped[i]) :
                 /\ requestLog[k].passed = popped[i].passResults
                 /\ requestLog[k].results = (IF popped[i].passResults
                                             THEN popped[i].taskIds ELSE <<>>)
    /\ \A i \in DOMAIN priorityStack : RequestCalls(priorityStack[i]) = {}
    /\ deferred = <<>>
          => \A i \in DOMAIN priorityStack :
                Resolvable(Cur, priorityStack[i])
                    => ~CompleteUpTo(priorityStack[i],
                                     Len(priorityStack[i].taskIds))

\* C23: a dispatch pass that serves a priority request leaves ownerStack and
\* the active owner as they were, has promoted the task with setNext (it is
\* the live task of its owner and no longer pending) and has scheduled its
\* execution, whoever is the top of the stack and whether or not the task is
\* activeOnly; the scheduled execution applies the fn of the task.
C23_PriorityPromotes ==
    [][/\ pass'.outcome = "priority"
             => /\ taskOwnerStack' = pass'.stack
                /\ activeTaskOwner' = pass'.active
                /\ owners'[tasks'[pass'.task].owner].liveTask = pass'.task
                /\ pass'.task \notin owners'[tasks'[pass'.task].owner].tasks
                /\ pass'.task
                       \notin Range(owners'[tasks'[pass'.task].owner].taskOrder)
                /\ deferred' = <<DeferredExecute(pass'.task,
                                                 tasks'[pass'.task].owner)>>
       /\ (pass.outcome = "priority" /\ DeferredExecuteTask)
             => /\ execLog' = Append(execLog, pass.task)
                /\ isComplete(tasks'[pass.task])]_vars

\* an activeOnly task of an owner that is not the top of the stack was
\* executed by the scheduler
C23_Witness ==
    /\ lastExec.ranFn /\ ~lastExec.manual
    /\ tasks[lastExec.task].activeOnly
    /\ taskOwnerStack # <<>>
    /\ tasks[lastExec.task].owner # Last(taskOwnerStack)
    /\ tasks[lastExec.task].owner \in taskOwners

\* the places of an owner a task id is in
Places(ow, t) ==
    (IF t \in ow.tasks \/ t \in Range(ow.taskOrder) THEN {"pending"} ELSE {})
        \cup (IF ow.liveTask = t THEN {"live"} ELSE {})
        \cup (IF t \in ow.completedTasks THEN {"completed"} ELSE {})

\* C24: owner partition: every task a registered owner was given is in
\* exactly one of its three places: pending (tasks and taskOrder), liveTask,
\* completedTasks.
C24_OwnerPartition ==
    \A t \in TaskIds :
        (t < taskIdCounter /\ tasks[t].owner \in taskOwners)
            => Cardinality(Places(owners[tasks[t].owner], t)) = 1

NotActiveOnly(ow) == SelectSeq(ow.taskOrder, LAMBDA t : ~tasks[t].activeOnly)

\* C26: getNext(false) returns the first task of taskOrder that is not
\* activeOnly, removes that id and no other from taskOrder and tasks, makes
\* it liveTask and leaves the other tasks in their order; when no pending
\* task qualifies it returns absent and leaves the owner as it is.
C26_GetNextInactive ==
    [][\A o \in OwnerIds :
          OwnerGetNext(o, FALSE)
              => IF NotActiveOnly(owners[o]) # <<>>
                 THEN /\ getNext(owners[o], FALSE, tasks).task
                             = Head(NotActiveOnly(owners[o]))
                      /\ owners'[o].liveTask = Head(NotActiveOnly(owners[o]))
                      /\ owners'[o].taskOrder =
                             SelectSeq(owners[o].taskOrder,
                                 LAMBDA t : t # Head(NotActiveOnly(owners[o])))
                      /\ Len(owners'[o].taskOrder)
                             = Len(owners[o].taskOrder) - 1
                      /\ owners'[o].tasks =
                             owners[o].tasks
                                 \ {Head(NotActiveOnly(owners[o]))}
                      /\ owners'[o].completedTasks = owners[o].completedTasks
                 ELSE /\ getNext(owners[o], FALSE, tasks).task = NoTask
                      /\ owners'[o] = owners[o]]_vars

\* getNext(false) skipped the activeOnly task added first, which is still
\* pending, and took the task added after it
C26_Witness ==
    \E o \in taskOwners :
        /\ tasks[FirstTaskId].activeOnly /\ ~tasks[FirstTaskId + 1].activeOnly
        /\ owners[o].taskOrder = <<FirstTaskId>>
        /\ owners[o].tasks = {FirstTaskId}
        /\ owners[o].liveTask = FirstTaskId + 1

\* C27: scheduler-state consistency: ownerStack holds the ids of the owner
\* registry, each exactly once, and the active owner is the top of a stack
\* that is not empty.
C27_StackIsRegistry ==
    /\ Range(taskOwnerStack) = taskOwners
    /\ Len(taskOwnerStack) = Cardinality(taskOwners)
    /\ taskOwnerStack # <<>> => activeTaskOwner = Last(taskOwnerStack)

\* two owners whose order in the stack is no longer that of registration,
\* after a request was served
C27_Witness ==
    /\ taskOwnerStack = <<FirstOwnerId + 1, FirstOwnerId>>
    /\ activeTaskOwner = FirstOwnerId
    /\ popped # <<>>

\* C28: a dispatch pass that starts with an empty priority queue and no
\* owner holding an eligible task, and so finds no task to execute, leaves
\* the order of ownerStack and the active owner as they were when it started.
C28_IdleKeepsActive ==
    (pass.outcome = "idle" /\ pass.prioEmpty /\ ~pass.eligible)
        => /\ taskOwnerStack = pass.stack
           /\ activeTaskOwner = pass.active

\* the request at the head of the priority queue cannot be resolved: its
\* owner is not registered, or the owner does not know its next task id
HeadUnresolvable ==
    /\ priorityStack # <<>>
    /\ \/ priorityStack[1].ownerId \notin taskOwners
       \/ get(owners[priorityStack[1].ownerId],
              priorityStack[1].taskIds[priorityStack[1].currentIdx + 1])
             = NoTask

\* task t is pending in a registered owner and is due: the owner stack hands
\* it out (it is not activeOnly), or a request behind the head lists it
Waiting(t) ==
    /\ t < taskIdCounter
    /\ tasks[t].owner \in taskOwners
    /\ t \in owners[tasks[t].owner].tasks
    /\ \/ ~tasks[t].activeOnly
       \/ \E i \in 2..Len(priorityStack) :
             /\ Resolvable(Cur, priorityStack[i])
             /\ t \in Range(priorityStack[i].taskIds)

\* C29: a request at the head of the priority queue that cannot be resolved
\* does not block the scheduler: a dispatch pass that leaves such a head and
\* a task that is pending in a registered owner and due (by the owner stack
\* or by a later request) has scheduled a turn, so that the task is executed
\* in the end.
C29_HeadDoesNotBlock ==
    (pass.outcome # "none" /\ HeadUnresolvable /\ \E t \in TaskIds : Waiting(t))
        => deferred # <<>>

\* how often fn of task t was applied to index idx
TimesApplied(log, t, idx) ==
    Cardinality({i \in DOMAIN log : log[i] = [task |-> t, idx |-> idx]})

\* C30: IterationTasks in flight at the same time do not interfere: a
\* resumed turn of one task advances the currentIteration of no other task,
\* no element of a task is applied twice, no application is made for a task
\* that is COMPLETE, and when no turn is pending every task that was started
\* is COMPLETE.
C30_NoInterference ==
    [][/\ DeferredIterateTurn
             => \A u \in IterationTasks \ {Head(deferred).task} :
                   iterations'[u].currentIteration
                       = iterations[u].currentIteration
       /\ \A t \in IterationTasks :
             /\ \A idx \in 0..(iterations[t].length - 1) :
                   TimesApplied(applyLog', t, idx) <= 1
             /\ isComplete(tasks[t])
                   => Applied(applyLog', t) = Applied(applyLog, t)
             /\ (deferred' = <<>> /\ tasks'[t].state # PENDING)
                   => isComplete(tasks'[t])]_vars

====
